---- MODULE Spec2Model ----
(***************************************************************************)
(* The SQLite participant-to-image allocator of src/app5_fixed.py          *)
(* (assign_images_for_participant and the queries it uses), as a state     *)
(* machine over the images and assignments tables.  Every Streamlit        *)
(* session runs the script in its own thread with its own connection;      *)
(* the sessions share nothing but the database file.                       *)
(*                                                                         *)
(* The source fixes K_PER_PERSON = 500, R_TARGET = 25 and COVER_M = 2.     *)
(* Here the three are configuration values chosen once in Init from        *)
(* 1..MaxK, 1..MaxR and 1..MaxCover (1..ConcMaxCover where sessions        *)
(* interleave) and never changed, so that every property is checked for    *)
(* every small configuration.  The column                                  *)
(* assigned_time, rel_path and the *_name columns play no part in the      *)
(* allocation and are left out, as is the sleep between two retries.       *)
(*                                                                         *)
(* Around the allocator: the stages of the Streamlit script (intro,        *)
(* training, rating, done) with the participants and ratings tables, the   *)
(* two write helpers with their retry loop, and the PostgreSQL variant of  *)
(* src/app_pg.py (slot counter, assignment plan, resuming a participant).  *)
(***************************************************************************)
EXTENDS Integers, Sequences, FiniteSets, TLC

\* ---------------------------------------------------------------- bounds
MaxImages == 2          \* image ids are 1..MaxImages
MaxK == 2               \* K_PER_PERSON ranges over 1..MaxK
MaxR == 2               \* R_TARGET ranges over 1..MaxR
MaxCover == 2           \* COVER_M ranges over 1..MaxCover (sequential runs)
ConcMaxCover == 1       \* the same, in the concurrent runs
MaxP == 2               \* PostgreSQL variant: exp_config.p_total is 0..MaxP
MaxCalls == 4           \* calls of allocate_next_slot in a run of SlotSpec

\* ------------------------------------------------------- program constants
SQLITE_WRITE_RETRIES == 6

Participants == {"p1", "p2"}
\* Streamlit sessions, each with a connection of its own.  A session calls
\* assign_images_for_participant once, from render_intro, and then leaves
\* the intro stage for good.
Sessions == {1, 2, 3}
ConcSessions == {1, 2}  \* the sessions that run in the concurrent runs
NoProc == 0
None == "None"
\* the axis values of the catalog; a resolution is its rank among the
\* resolution strings
Categories == {1, 2}
Resolutions == {1}
Distortions == {1, 2}

VARIABLES
    images,             \* images table: image_id -> (category, resolution, distortion)
    K_PER_PERSON, R_TARGET, COVER_M,
    assigned_count,     \* images.assigned_count, committed
    assignments,        \* assignments table, committed: set of rows
    tx_assigned_count,  \* the same two tables as the connection that holds
    tx_assignments,     \*   the write lock sees them (uncommitted writes)
    lock,               \* the connection holding SQLite's write lock
    pc, pid, tries,     \* per call: position, participant, retry counter i
    existing,           \* per call: the local of line 318
    cover_ids, chosen,  \* per call: the locals of the same names
    stage,              \* per session: st.session_state.stage
    warned,             \* per session: st.warning of line 360 was shown
    participant_id,     \* per session: st.session_state.participant_id
    idx,                \* per session: st.session_state.idx
    participants,       \* participants table: the participant_id column
    ratings,            \* ratings table (no key): rows in insertion order
    helper,             \* per connection: a running execute_write_with_retry
                        \*   or executemany_write_with_retry
    \* src/app_pg.py, the PostgreSQL variant
    p_total,            \* exp_config.p_total
    assignment_plan,    \* assignment_plan: slot -> image ids in ord order
    next_slot,          \* slot_counter.next_slot of the row id = 1
    row_lock,           \* the session holding that row's FOR UPDATE lock
    pg_participants,    \* participants, rows in start_time order
    pg_assignments,     \* assignments: set of rows
    pg_ratings,         \* ratings (no key): rows in insertion order
    session_state,      \* per session: stage, participant_id, slot, idx
    intro,              \* per session: position and locals of render_intro
    returned_slots,     \* history: the results of allocate_next_slot, in
                        \*   the order of their commits
    undone              \* history: per session, the uncommitted row inserts
                        \*   and counter increments its rollback dropped

config == <<images, K_PER_PERSON, R_TARGET, COVER_M>>
db == <<assigned_count, assignments>>
txdb == <<tx_assigned_count, tx_assignments>>
locals == <<existing, cover_ids, chosen>>
ui == <<stage, warned>>
app == <<participant_id, idx, participants, ratings>>
pg == <<p_total, assignment_plan, next_slot, row_lock, pg_participants,
        pg_assignments, pg_ratings, session_state, intro, returned_slots>>
rest == <<helper, pg>>
vars == <<images, K_PER_PERSON, R_TARGET, COVER_M, assigned_count,
          assignments, tx_assigned_count, tx_assignments, lock, pc, pid,
          tries, existing, cover_ids, chosen, stage, warned,
          participant_id, idx, participants, ratings, helper, p_total,
          assignment_plan, next_slot, row_lock, pg_participants,
          pg_assignments, pg_ratings, session_state, intro, returned_slots,
          undone>>

history == <<undone>>

\* ------------------------------------------------------------ sequences
Range(s) == {s[i] : i \in DOMAIN s}

Min(a, b) == IF a < b THEN a ELSE b

Perms(S) ==
    {s \in [1..Cardinality(S) -> S] : \A i, j \in DOMAIN s : s[i] = s[j] => i = j}

RECURSIVE SortedSeq(_)
SortedSeq(S) ==
    IF S = {} THEN <<>>
    ELSE LET m == CHOOSE x \in S : \A y \in S : x <= y
         IN <<m>> \o SortedSeq(S \ {m})

RECURSIVE Sum(_, _)
Sum(f, S) ==
    IF S = {} THEN 0
    ELSE LET x == CHOOSE y \in S : TRUE IN f[x] + Sum(f, S \ {x})

RECURSIVE Flatten(_)
Flatten(ss) == IF ss = <<>> THEN <<>> ELSE Head(ss) \o Flatten(Tail(ss))

\* mutant of SortByCount: sorted with reverse=True
SortByCount_Desc(s, counts) ==
    Flatten([c \in 1..MaxR + 1 |->
                SelectSeq(s, LAMBDA i : counts[i] = MaxR + 1 - c)])

\* mutant of SortByCount: the list is left as fetched
SortByCount_Unsorted(s, counts) == s

\* list.sort(key=lambda x: x[1]): a stable sort by assigned_count, which
\* is below R_TARGET for every element sorted
SortByCount(s, counts) ==
    Flatten([c \in 1..MaxR + 1 |->
                SelectSeq(s, LAMBDA i : counts[i] = c - 1)])

\* list(dict.fromkeys(s)): the first occurrence of every element, in order
DictFromKeys(s) ==
    LET first == SelectSeq([j \in 1..Len(s) |-> j],
                           LAMBDA j : \A l \in 1..j - 1 : s[l] # s[j])
    IN [n \in 1..Len(first) |-> s[first[n]]]

\* ------------------------------------------------------------- catalog
\* f"{cat}|{res}|{dist}" with cat and dist integers: two triples give the
\* same string only when they are equal, so the key is the triple
build_strata_key(cat, res, dist) == <<cat, res, dist>>

KeyOf(i) ==
    build_strata_key(images[i].category, images[i].resolution,
                     images[i].distortion)

\* SELECT DISTINCT <axis> FROM images ORDER BY <axis> ASC, three times
fetch_distinct_axes ==
    [cats  |-> SortedSeq({images[i].category : i \in DOMAIN images}),
     ress  |-> SortedSeq({images[i].resolution : i \in DOMAIN images}),
     dists |-> SortedSeq({images[i].distortion : i \in DOMAIN images})]

\* mutant of AvailableIds: WHERE assigned_count <= R_TARGET
AvailableIds_AtMost(counts) ==
    {i \in DOMAIN images : counts[i] <= R_TARGET}

\* the rows SELECT ... WHERE assigned_count < R_TARGET returns
AvailableIds(counts) == {i \in DOMAIN images : counts[i] < R_TARGET}

\* the query has no ORDER BY: fetchall() may return the rows in any order
FetchOrders(counts) == Perms(AvailableIds(counts))

\* fetch_available_by_strata for one order of the fetched rows: the dict's
\* keys in insertion order and, per key, the image ids sorted by count
fetch_available_by_strata(rows, counts) ==
    LET keys == DictFromKeys([j \in 1..Len(rows) |-> KeyOf(rows[j])])
    IN [keys  |-> keys,
        items |-> [k \in Range(keys) |->
                     SortByCount(SelectSeq(rows, LAMBDA i : KeyOf(i) = k),
                                 counts)]]

\* the three nested loops over cats, ress and dists, as one sequence of keys
CrossKeys ==
    LET ax == fetch_distinct_axes
        nc == Len(ax.cats)
        nr == Len(ax.ress)
        nd == Len(ax.dists)
    IN [n \in 1..nc * nr * nd |->
          build_strata_key(ax.cats[((n - 1) \div (nr * nd)) + 1],
                           ax.ress[(((n - 1) \div nd) % nr) + 1],
                           ax.dists[((n - 1) % nd) + 1])]

\* strata.get(key, [])
Candidates(strata, key) ==
    IF key \in Range(strata.keys) THEN strata.items[key] ELSE <<>>

\* mutant of Take: one image more than COVER_M
Take_OneMore(candidates) == Min(COVER_M + 1, Len(candidates))

\* take = min(COVER_M, len(candidates))
Take(candidates) == Min(COVER_M, Len(candidates))

\* the coverage pass: cover_ids, and strata as the pops leave it
CoverIds(strata) ==
    Flatten([n \in 1..Len(CrossKeys) |->
               LET c == Candidates(strata, CrossKeys[n])
               IN SubSeq(c, 1, Take(c))])

AfterPops(strata) ==
    [strata EXCEPT !.items =
        [k \in Range(strata.keys) |->
           LET c == strata.items[k]
           IN IF k \in Range(CrossKeys)
              THEN SubSeq(c, Take(c) + 1, Len(c)) ELSE c]]

\* mutant of FillPass: the pool is every image of the table the coverage
\* pass did not take, capped or not
FillPass_WholeTable(cover, strata, counts) ==
    LET first == DictFromKeys(cover)
        pool  == SelectSeq([j \in DOMAIN images |-> j],
                           LAMBDA i : i \notin Range(first))
        need  == K_PER_PERSON - Len(first)
    IN IF Len(first) < K_PER_PERSON
       THEN first \o SubSeq(pool, 1, Min(need, Len(pool)))
       ELSE first

\* the fill pass: chosen after `chosen.extend(...)`
FillPass(cover, strata, counts) ==
    LET first == DictFromKeys(cover)
        left  == AfterPops(strata)
        pool  == SortByCount(
                   Flatten([n \in 1..Len(left.keys) |->
                              SelectSeq(left.items[left.keys[n]],
                                        LAMBDA i : i \notin Range(first))]),
                   counts)
        need  == K_PER_PERSON - Len(first)
    IN IF Len(first) < K_PER_PERSON
       THEN first \o SubSeq(pool, 1, Min(need, Len(pool)))
       ELSE first

\* lines 333-357 for one order of the fetched rows: cover_ids, and chosen
\* as the fill pass leaves it
Selection(rows, counts) ==
    LET strata == fetch_available_by_strata(rows, counts)
        cover  == CoverIds(strata)
    IN [cover_ids |-> cover, chosen |-> FillPass(cover, strata, counts)]

\* random.shuffle(chosen): any order of the same elements
Shuffles(s) == {t \in Perms(Range(s)) : Len(t) = Len(s)}

\* --------------------------------------------------------- assignments
Row(p, i, o) == [participant_id |-> p, image_id |-> i, ord |-> o]

RowsOf(asg, p) == {r \in asg : r.participant_id = p}

\* SELECT image_id FROM assignments WHERE participant_id=? ORDER BY ord ASC:
\* the lists the query may return (rows of equal ord come in either order)
get_assigned_image_ids(asg, p) ==
    {[n \in 1..Cardinality(RowsOf(asg, p)) |-> s[n].image_id] :
       s \in {t \in Perms(RowsOf(asg, p)) :
                \A a, b \in DOMAIN t : a < b => t[a].ord <= t[b].ord}}

\* mutant of InsertOrIgnore: a table without the primary key
InsertOrIgnore_NoKey(asg, p, list, n) ==
    asg \cup {Row(p, list[m], m - 1) : m \in n..Len(list)}

\* executemany(INSERT OR IGNORE INTO assignments ...) over enumerate(chosen):
\* PRIMARY KEY (participant_id, image_id) makes a row with a key already
\* present be ignored
RECURSIVE InsertOrIgnore(_, _, _, _)
InsertOrIgnore(asg, p, list, n) ==
    IF n > Len(list) THEN asg
    ELSE LET clash == \E r \in asg : r.participant_id = p
                                     /\ r.image_id = list[n]
         IN InsertOrIgnore(IF clash THEN asg
                           ELSE asg \cup {Row(p, list[n], n - 1)},
                           p, list, n + 1)

\* mutant of IncrementCounts: the last chosen image is not incremented
IncrementCounts_SkipLast(counts, list, n) ==
    [i \in DOMAIN counts |->
       counts[i] + (IF \E m \in n..Len(list) - 1 : list[m] = i
                    THEN 1 ELSE 0)]

\* executemany(UPDATE images SET assigned_count = assigned_count + 1
\*             WHERE image_id = ?) over chosen
RECURSIVE IncrementCounts(_, _, _)
IncrementCounts(counts, list, n) ==
    IF n > Len(list) THEN counts
    ELSE IncrementCounts([counts EXCEPT ![list[n]] = @ + 1], list, n + 1)

\* ---------------------------------------------------------------- Init
\* The allocator tests image ids, categories and distortions for equality
\* only; the order of the fetched rows is arbitrary and the order of the
\* loops over the axes is erased by the shuffle.  Two catalogs that differ
\* by a renaming of the images, of the category values or of the distortion
\* values therefore behave alike, and Init takes one catalog of each such
\* class: the one whose sorted sequence of strata is the smallest.
StratumRank(r) == (r.category * 10 + r.resolution) * 10 + r.distortion

Bijections(S) == {f \in [S -> S] : \A x, y \in S : f[x] = f[y] => x = y}

RECURSIVE SortInts(_)
SortInts(s) ==
    IF s = <<>> THEN <<>>
    ELSE LET m == CHOOSE i \in DOMAIN s : \A j \in DOMAIN s : s[i] <= s[j]
         IN <<s[m]>> \o SortInts([n \in 1..Len(s) - 1 |->
                                    IF n < m THEN s[n] ELSE s[n + 1]])

LexLeq(a, b) ==
    \A i \in DOMAIN a : (\A j \in 1..i - 1 : a[j] = b[j]) => a[i] <= b[i]

RenamedRanks(c, fc, fd) ==
    SortInts([i \in DOMAIN c |->
                StratumRank([category   |-> fc[c[i].category],
                             resolution |-> c[i].resolution,
                             distortion |-> fd[c[i].distortion]])])

Canonical(c) ==
    LET ranks == [i \in DOMAIN c |-> StratumRank(c[i])]
    IN /\ \A i, j \in DOMAIN c : i < j => ranks[i] <= ranks[j]
       /\ \A fc \in Bijections(Categories), fd \in Bijections(Distortions) :
            LexLeq(ranks, RenamedRanks(c, fc, fd))

Catalogs ==
    UNION {{c \in [1..n -> [category : Categories, resolution : Resolutions,
                            distortion : Distortions]] : Canonical(c)} :
           n \in 0..MaxImages}

\* no write helper is running
HelperAtRest ==
    helper = [p \in Sessions |->
                [pc |-> "idle", many |-> FALSE, i |-> 0, log |-> <<>>,
                 error |-> "none"]]

\* a row that a query did not find
NoRow == [participant_id |-> None, slot |-> 0]

\* lines 347-354 of src/app_pg.py, and render_intro not yet submitted
SessionsAtRest ==
    /\ session_state = [p \in Sessions |->
                          [stage |-> "intro", participant_id |-> None,
                           slot |-> 0, idx |-> 0]]
    /\ intro = [p \in Sessions |->
                  [pc |-> "idle", sid |-> None, first |-> FALSE,
                   old |-> NoRow, pid |-> None, slot |-> 0]]

\* the PostgreSQL variant is not running
PgAtRest ==
    /\ p_total = 0
    /\ assignment_plan = <<>>
    /\ next_slot = 1
    /\ row_lock = NoProc
    /\ pg_participants = <<>>
    /\ pg_assignments = {}
    /\ pg_ratings = <<>>
    /\ returned_slots = <<>>
    /\ SessionsAtRest

RestAtRest == HelperAtRest /\ PgAtRest

\* after init_db and import_manifest_if_needed: every assigned_count has
\* its DEFAULT 0, assignments is empty, no session has registered
InitWith(maxCover) ==
    /\ images \in Catalogs
    /\ K_PER_PERSON \in 1..MaxK
    /\ R_TARGET \in 1..MaxR
    /\ COVER_M \in 1..maxCover
    /\ assigned_count = [i \in DOMAIN images |-> 0]
    /\ assignments = {}
    /\ tx_assigned_count = assigned_count
    /\ tx_assignments = assignments
    /\ lock = NoProc
    /\ pc = [p \in Sessions |-> "idle"]
    /\ pid = [p \in Sessions |-> "p1"]
    /\ tries = [p \in Sessions |-> 0]
    /\ existing = [p \in Sessions |-> <<>>]
    /\ cover_ids = [p \in Sessions |-> <<>>]
    /\ chosen = [p \in Sessions |-> <<>>]
    /\ stage = [p \in Sessions |-> "intro"]
    /\ warned = [p \in Sessions |-> FALSE]
    /\ participant_id = [p \in Sessions |-> None]
    /\ idx = [p \in Sessions |-> 0]
    /\ participants = {}
    /\ ratings = <<>>
    /\ undone = [p \in Sessions |-> 0]
    /\ RestAtRest

\* ------------------------------------------------------------- actions
\* what connection p reads: its own uncommitted writes when it holds the
\* write lock, the committed tables otherwise (WAL: readers never block)
ViewCounts(p) == IF lock = p THEN tx_assigned_count ELSE assigned_count
ViewAssignments(p) == IF lock = p THEN tx_assignments ELSE assignments

\* mutant of AlreadyAssigned: > in place of >=
AlreadyAssigned_Strict(ids) == Len(ids) > K_PER_PERSON

\* existing = get_assigned_image_ids(conn, pid); if len(existing) >= K: return
AlreadyAssigned(ids) == Len(ids) >= K_PER_PERSON

\* a session that is not inside a call: it has not called yet, or its call
\* returned at line 320, returned after the commit, or raised
Returned == {"idle", "returned", "done", "failed"}

\* Sessions are interchangeable and so are participant ids: of the runs that
\* differ by a renaming only those are kept in which the sessions call in
\* the order of their numbers and "p1" is the first id used.
InCallOrder(p, q) ==
    /\ \A o \in Sessions : o < p => pc[o] # "idle"
    /\ q # "p1" => \E o \in Sessions : pc[o] # "idle" /\ pid[o] = "p1"

\* lines 314-320: a session calls assign_images_for_participant(q).  When
\* the call returns at line 320, render_intro goes on to line 475
Call(p, q) ==
    /\ pc[p] = "idle"
    /\ InCallOrder(p, q)
    /\ pid' = [pid EXCEPT ![p] = q]
    /\ \E ids \in get_assigned_image_ids(assignments, q) :
         IF AlreadyAssigned(ids)
         THEN /\ pc' = [pc EXCEPT ![p] = "returned"]
              /\ stage' = [stage EXCEPT ![p] = "training"]
              /\ UNCHANGED existing
         ELSE /\ pc' = [pc EXCEPT ![p] = "begin"]
              /\ existing' = [existing EXCEPT ![p] = ids]
              /\ UNCHANGED stage
    /\ UNCHANGED <<rest, app, config, warned, db, txdb, lock, tries, cover_ids, chosen,
                   history>>

\* lines 323-326: cur.execute("BEGIN IMMEDIATE") takes the write lock
BeginImmediate(p) ==
    /\ pc[p] = "begin"
    /\ lock = NoProc
    /\ lock' = p
    /\ pc' = [pc EXCEPT ![p] = "select"]
    /\ tries' = [tries EXCEPT ![p] = 0]
    /\ UNCHANGED <<rest, app, config, ui, db, txdb, pid, locals, history>>

\* lines 327-330: another connection holds the write lock for longer than
\* busy_timeout, BEGIN IMMEDIATE raises "database is locked"; the loop goes
\* on to its next round, and after the last round to line 333
BeginLocked(p) ==
    /\ pc[p] = "begin"
    /\ lock \notin {NoProc, p}
    /\ tries' = [tries EXCEPT ![p] =
                   IF @ + 1 < SQLITE_WRITE_RETRIES THEN @ + 1 ELSE 0]
    /\ pc' = [pc EXCEPT ![p] =
                IF tries[p] + 1 < SQLITE_WRITE_RETRIES THEN "begin"
                ELSE "select"]
    /\ UNCHANGED <<rest, app, config, ui, db, txdb, lock, pid, locals, history>>

\* mutant of Warning: <= in place of <
Warning_AtMost(list) == Len(list) <= K_PER_PERSON

\* line 359: if len(chosen) < K_PER_PERSON: st.warning(...)
Warning(list) == Len(list) < K_PER_PERSON

\* lines 333-366: the axes and the available rows are read, the coverage
\* and the fill pass choose, the result is shuffled
Select(p) ==
    /\ pc[p] = "select"
    /\ \E sel \in {Selection(rows, ViewCounts(p)) :
                      rows \in FetchOrders(ViewCounts(p))} :
         /\ cover_ids' = [cover_ids EXCEPT ![p] = sel.cover_ids]
         /\ warned' = [warned EXCEPT ![p] = Warning(sel.chosen)]
         /\ \E order \in Shuffles(sel.chosen) :
              chosen' = [chosen EXCEPT ![p] = order]
    /\ pc' = [pc EXCEPT ![p] = "insert"]
    /\ UNCHANGED <<rest, app, config, stage, db, txdb, lock, pid, tries, existing,
                   history>>

\* mutant of Insert: the INSERT takes no database-wide lock
Insert_NoLock(p) ==
    /\ pc[p] = "insert"
    /\ tx_assignments' = InsertOrIgnore(tx_assignments, pid[p], chosen[p], 1)
    /\ pc' = [pc EXCEPT ![p] = "update"]
    /\ tries' = [tries EXCEPT ![p] = 0]
    /\ UNCHANGED <<rest, app, config, ui, db, tx_assigned_count, lock, pid, locals,
                   history>>

\* lines 368-372: the INSERT OR IGNORE of the chosen rows.  Outside a
\* transaction (BEGIN IMMEDIATE never succeeded) the sqlite3 module opens
\* one before the INSERT, which then needs the write lock itself
Insert(p) ==
    /\ pc[p] = "insert"
    /\ lock \in {NoProc, p}
    /\ lock' = p
    /\ tx_assignments' = InsertOrIgnore(tx_assignments, pid[p], chosen[p], 1)
    /\ pc' = [pc EXCEPT ![p] = "update"]
    /\ tries' = [tries EXCEPT ![p] = 0]
    /\ UNCHANGED <<rest, app, config, ui, db, tx_assigned_count, pid, locals,
                   history>>

\* mutant of Rollback: the error path commits what was written
Rollback_Commits(p) ==
    /\ pc' = [pc EXCEPT ![p] = "failed"]
    /\ tries' = [tries EXCEPT ![p] = 0]
    /\ lock' = IF lock = p THEN NoProc ELSE lock
    /\ assigned_count' = IF lock = p THEN tx_assigned_count
                         ELSE assigned_count
    /\ assignments' = IF lock = p THEN tx_assignments ELSE assignments
    /\ existing' = [existing EXCEPT ![p] = <<>>]
    /\ cover_ids' = [cover_ids EXCEPT ![p] = <<>>]
    /\ chosen' = [chosen EXCEPT ![p] = <<>>]
    /\ undone' = [undone EXCEPT ![p] = 0]
    /\ UNCHANGED <<rest, app, config, ui, txdb, pid>>

\* conn.rollback() and the re-raise of lines 381-385
Rollback(p) ==
    /\ pc' = [pc EXCEPT ![p] = "failed"]
    /\ tries' = [tries EXCEPT ![p] = 0]
    /\ lock' = IF lock = p THEN NoProc ELSE lock
    /\ tx_assigned_count' = IF lock = p THEN assigned_count
                            ELSE tx_assigned_count
    /\ tx_assignments' = IF lock = p THEN assignments ELSE tx_assignments
    /\ existing' = [existing EXCEPT ![p] = <<>>]
    /\ cover_ids' = [cover_ids EXCEPT ![p] = <<>>]
    /\ chosen' = [chosen EXCEPT ![p] = <<>>]
    /\ undone' = [undone EXCEPT ![p] =
                    IF lock = p
                    THEN Cardinality(tx_assignments \ assignments)
                         + Sum(tx_assigned_count, DOMAIN images)
                         - Sum(assigned_count, DOMAIN images)
                    ELSE 0]
    /\ UNCHANGED <<rest, app, config, ui, db, pid>>

\* executemany_write_with_retry, lines 89-99, when the INSERT finds the
\* write lock held by another connection: the next round, and after the
\* last round OperationalError
InsertLocked(p) ==
    /\ pc[p] = "insert"
    /\ lock \notin {NoProc, p}
    /\ IF tries[p] + 1 < SQLITE_WRITE_RETRIES
       THEN /\ tries' = [tries EXCEPT ![p] = @ + 1]
            /\ UNCHANGED <<rest, app, config, ui, db, txdb, lock, pc, pid, locals,
                           history>>
       ELSE Rollback(p)

\* lines 374-378: the UPDATE of assigned_count for every chosen image
Update(p) ==
    /\ pc[p] = "update"
    /\ lock = p
    /\ tx_assigned_count' = IncrementCounts(tx_assigned_count, chosen[p], 1)
    /\ pc' = [pc EXCEPT ![p] = "commit"]
    /\ UNCHANGED <<rest, app, config, ui, db, tx_assignments, lock, pid, tries, locals,
                   history>>

\* line 380: conn.commit() publishes the writes and frees the lock; the
\* call returns and render_intro sets the stage (line 475)
Commit(p) ==
    /\ pc[p] = "commit"
    /\ lock = p
    /\ assigned_count' = tx_assigned_count
    /\ assignments' = tx_assignments
    /\ lock' = NoProc
    /\ pc' = [pc EXCEPT ![p] = "done"]
    /\ stage' = [stage EXCEPT ![p] = "training"]
    /\ existing' = [existing EXCEPT ![p] = <<>>]
    /\ cover_ids' = [cover_ids EXCEPT ![p] = <<>>]
    /\ chosen' = [chosen EXCEPT ![p] = <<>>]
    /\ UNCHANGED <<rest, app, config, warned, txdb, pid, tries, undone>>

\* a statement of lines 368-380 raises something that is not a lock error
\* (disk full, I/O error): lines 381-385
Raise(p) ==
    /\ pc[p] \in {"insert", "update", "commit"}
    /\ Rollback(p)

Step(p) ==
    \/ \E q \in Participants : Call(p, q)
    \/ BeginImmediate(p)
    \/ BeginLocked(p)
    \/ Select(p)
    \/ Insert(p)
    \/ InsertLocked(p)
    \/ Update(p)
    \/ Commit(p)
    \/ Raise(p)

\* the sessions of ConcSessions run concurrently
Next == \E p \in ConcSessions : Step(p)

Init == InitWith(ConcMaxCover)

Spec == Init /\ [][Next]_vars

\* one session at a time: a call returns before the next session calls.
\* No lock is ever found held, so the two lock-error actions are left out.
SeqStep(p) ==
    \/ \E q \in Participants : Call(p, q)
    \/ BeginImmediate(p)
    \/ Select(p)
    \/ Insert(p)
    \/ Update(p)
    \/ Commit(p)
    \/ Raise(p)

SeqNext ==
    \E p \in Sessions :
        /\ \A o \in Sessions \ {p} : pc[o] \in Returned
        /\ SeqStep(p)

SeqInit == InitWith(MaxCover)

SeqSpec == SeqInit /\ [][SeqNext]_vars

\* render_intro, lines 459-471: pid = str(uuid4()), a value no earlier
\* call returned, is stored in the session and inserted into participants
\* (an autocommitted write of its own, before the allocator is called)
Register(p) ==
    /\ stage[p] = "intro"
    /\ pc[p] = "idle"
    /\ participant_id[p] = None
    /\ lock = NoProc
    /\ \E q \in Participants \ participants :
         /\ InCallOrder(p, q)
         /\ participant_id' = [participant_id EXCEPT ![p] = q]
         /\ participants' = participants \cup {q}
    /\ UNCHANGED <<rest, config, ui, db, txdb, lock, pc, pid, tries, locals,
                   idx, ratings, history>>

\* render_intro, line 473: assign_images_for_participant(pid) and its steps
Assign(p) ==
    /\ participant_id[p] # None
    /\ \/ Call(p, participant_id[p])
       \/ BeginImmediate(p)
       \/ Select(p)
       \/ Insert(p)
       \/ Update(p)
       \/ Commit(p)
       \/ Raise(p)

\* render_training, lines 560-564: the button "Next -> Start Rating"
StartRating(p) ==
    /\ stage[p] = "training"
    /\ stage' = [stage EXCEPT ![p] = "rating"]
    /\ idx' = [idx EXCEPT ![p] = 0]
    /\ UNCHANGED <<rest, config, warned, db, txdb, lock, pc, pid, tries,
                   locals, participant_id, participants, ratings, history>>

RatingRow(q, i) == [participant_id |-> q, image_id |-> i]

\* mutant of Rate: the submission also counts as an exposure of the image
Rate_Exposure(p) ==
    /\ stage[p] = "rating"
    /\ lock = NoProc
    /\ \E assigned_ids \in get_assigned_image_ids(assignments,
                                                  participant_id[p]) :
         /\ idx[p] < Len(assigned_ids)
         /\ ratings' = Append(ratings,
                              RatingRow(participant_id[p],
                                        assigned_ids[idx[p] + 1]))
         /\ assigned_count' =
              [assigned_count EXCEPT ![assigned_ids[idx[p] + 1]] = @ + 1]
    /\ idx' = [idx EXCEPT ![p] = @ + 1]
    /\ UNCHANGED <<rest, config, ui, assignments, txdb, lock, pc, pid, tries,
                   locals, participant_id, participants, history>>

\* mutant of Rate: idx is left as it was
Rate_NoAdvance(p) ==
    /\ stage[p] = "rating"
    /\ lock = NoProc
    /\ \E assigned_ids \in get_assigned_image_ids(assignments,
                                                  participant_id[p]) :
         /\ idx[p] < Len(assigned_ids)
         /\ ratings' = Append(ratings,
                              RatingRow(participant_id[p],
                                        assigned_ids[idx[p] + 1]))
    /\ UNCHANGED <<rest, config, ui, db, txdb, lock, pc, pid, tries, locals,
                   participant_id, idx, participants, history>>

\* render_rating, lines 577-673, on a click of Next: the run reads the
\* participant's list (line 577; lists are 0-based there), passes the two
\* checks of lines 593 and 598, shows image_id = assigned_ids[idx] (line
\* 604), inserts one ratings row for it and commits (651-669), then
\* idx += 1 (672).  The write needs SQLite's write lock; while another
\* connection holds it the helper raises in the end and nothing changes.
\* The score and the other columns of the row are not modelled.
Rate(p) ==
    /\ stage[p] = "rating"
    /\ lock = NoProc
    /\ \E assigned_ids \in get_assigned_image_ids(assignments,
                                                  participant_id[p]) :
         /\ idx[p] < Len(assigned_ids)
         /\ ratings' = Append(ratings,
                              RatingRow(participant_id[p],
                                        assigned_ids[idx[p] + 1]))
    /\ idx' = [idx EXCEPT ![p] = @ + 1]
    /\ UNCHANGED <<rest, config, ui, db, txdb, lock, pc, pid, tries, locals,
                   participant_id, participants, history>>

\* mutant of Finish: done one image early
Finish_Early(p) ==
    /\ stage[p] = "rating"
    /\ \E assigned_ids \in get_assigned_image_ids(assignments,
                                                  participant_id[p]) :
         /\ Len(assigned_ids) # 0
         /\ idx[p] + 1 >= Len(assigned_ids)
    /\ stage' = [stage EXCEPT ![p] = "done"]
    /\ UNCHANGED <<rest, app, config, warned, db, txdb, lock, pc, pid, tries,
                   locals, history>>

\* render_rating, lines 577-602: with total == 0 the run stops at line 596;
\* otherwise, once idx >= total, the stage becomes "done"
Finish(p) ==
    /\ stage[p] = "rating"
    /\ \E assigned_ids \in get_assigned_image_ids(assignments,
                                                  participant_id[p]) :
         /\ Len(assigned_ids) # 0
         /\ idx[p] >= Len(assigned_ids)
    /\ stage' = [stage EXCEPT ![p] = "done"]
    /\ UNCHANGED <<rest, app, config, warned, db, txdb, lock, pc, pid, tries,
                   locals, history>>

\* the sessions of ConcSessions submit the intro form one after the other
\* and walk through the stages of the router (lines 690-697), each at its
\* own pace
AppNext ==
    \E p \in ConcSessions :
        \/ /\ \A o \in ConcSessions \ {p} : pc[o] \in Returned
           /\ (Register(p) \/ Assign(p))
        \/ StartRating(p)
        \/ Rate(p)
        \/ Finish(p)

AppSpec == Init /\ [][AppNext]_vars

\* The balanced scenario of the spec on a smaller catalog: 2 strata of 2
\* images each in place of 8 strata of 4, with R_TARGET = 2, COVER_M = 1
\* and K_PER_PERSON = the number of strata as there, and as many
\* participants as exhaust the catalog (images per stratum * R_TARGET: 4
\* in place of 8), each registering once, one after the other, with an id
\* of its own; no statement fails.
ScenImages ==
    <<[category |-> 1, resolution |-> 1, distortion |-> 1],
      [category |-> 1, resolution |-> 1, distortion |-> 1],
      [category |-> 2, resolution |-> 1, distortion |-> 1],
      [category |-> 2, resolution |-> 1, distortion |-> 1]>>

ScenPid == <<"p1", "p2", "p3", "p4">>

ScenSessions == DOMAIN ScenPid

ScenInit ==
    /\ images = ScenImages
    /\ K_PER_PERSON = Cardinality({ScenImages[i].category :
                                     i \in DOMAIN ScenImages})
    /\ R_TARGET = 2
    /\ COVER_M = 1
    /\ assigned_count = [i \in DOMAIN images |-> 0]
    /\ assignments = {}
    /\ tx_assigned_count = assigned_count
    /\ tx_assignments = assignments
    /\ lock = NoProc
    /\ pc = [p \in ScenSessions |-> "idle"]
    /\ pid = [p \in ScenSessions |-> "p1"]
    /\ tries = [p \in ScenSessions |-> 0]
    /\ existing = [p \in ScenSessions |-> <<>>]
    /\ cover_ids = [p \in ScenSessions |-> <<>>]
    /\ chosen = [p \in ScenSessions |-> <<>>]
    /\ stage = [p \in ScenSessions |-> "intro"]
    /\ warned = [p \in ScenSessions |-> FALSE]
    /\ participant_id = [p \in ScenSessions |-> None]
    /\ idx = [p \in ScenSessions |-> 0]
    /\ participants = {}
    /\ ratings = <<>>
    /\ undone = [p \in ScenSessions |-> 0]
    /\ RestAtRest

ScenNext ==
    \E p \in ScenSessions :
        /\ \A o \in ScenSessions \ {p} : pc[o] \in Returned
        /\ \/ Call(p, ScenPid[p])
           \/ BeginImmediate(p)
           \/ Select(p)
           \/ Insert(p)
           \/ Update(p)
           \/ Commit(p)

ScenSpec == ScenInit /\ [][ScenNext]_vars

\* ------------------------------------------------------- write helpers
\* execute_write_with_retry (lines 71-85) and executemany_write_with_retry
\* (lines 88-99) are the same loop around conn.execute and
\* conn.executemany.  helper[p].i is the loop variable, helper[p].log the
\* outcomes of the attempts made so far.
sqlite == <<config, db, txdb, pc, pid, tries, locals, ui, app, history>>

\* a caller on connection p enters one of the two helpers
HelperCall(p, many) ==
    /\ helper[p].pc = "idle"
    /\ helper' = [helper EXCEPT ![p] = [@ EXCEPT !.pc = "try",
                                                 !.many = many, !.i = 0]]
    /\ UNCHANGED <<pg, sqlite, lock>>

\* the statement runs: the connection now holds the write lock of its open
\* transaction, and the helper returns at once
HelperSuccess(p) ==
    /\ helper[p].pc = "try"
    /\ helper[p].i < SQLITE_WRITE_RETRIES
    /\ lock = NoProc
    /\ lock' = p
    /\ helper' = [helper EXCEPT ![p] = [@ EXCEPT !.pc = "returned",
                                                 !.log = Append(@, "ok")]]
    /\ UNCHANGED <<pg, sqlite>>

\* OperationalError with "locked" in its message, raised while another
\* connection holds the write lock: sleep, then the next round
HelperLocked(p) ==
    /\ helper[p].pc = "try"
    /\ helper[p].i < SQLITE_WRITE_RETRIES
    /\ lock \notin {NoProc, p}
    /\ helper' = [helper EXCEPT ![p] = [@ EXCEPT !.i = @ + 1,
                                                 !.log = Append(@, "locked")]]
    /\ UNCHANGED <<pg, sqlite, lock>>

\* any other exception of the statement: the bare raise of lines 82 and 98
HelperOtherError(p) ==
    /\ helper[p].pc = "try"
    /\ helper[p].i < SQLITE_WRITE_RETRIES
    /\ helper' = [helper EXCEPT ![p] = [@ EXCEPT !.pc = "raised",
                                                 !.error = "other",
                                                 !.log = Append(@, "other")]]
    /\ UNCHANGED <<pg, sqlite, lock>>

\* mutant of HelperExhausted: the loop falls through and the helper returns
HelperExhausted_Silent(p) ==
    /\ helper[p].pc = "try"
    /\ helper[p].i = SQLITE_WRITE_RETRIES
    /\ helper' = [helper EXCEPT ![p] = [@ EXCEPT !.pc = "returned"]]
    /\ UNCHANGED <<pg, sqlite, lock>>

\* range() is exhausted: the raise of lines 85 and 99
HelperExhausted(p) ==
    /\ helper[p].pc = "try"
    /\ helper[p].i = SQLITE_WRITE_RETRIES
    /\ helper' = [helper EXCEPT ![p] = [@ EXCEPT !.pc = "raised",
                                                 !.error = "locked"]]
    /\ UNCHANGED <<pg, sqlite, lock>>

\* the caller's conn.commit() after the helper returned (lines 469, 668)
HelperCommit(p) ==
    /\ helper[p].pc = "returned"
    /\ lock = p
    /\ lock' = NoProc
    /\ helper' = [helper EXCEPT ![p] = [@ EXCEPT !.pc = "committed"]]
    /\ UNCHANGED <<pg, sqlite>>

HelperStep(p) ==
    \/ HelperSuccess(p)
    \/ HelperLocked(p)
    \/ HelperOtherError(p)
    \/ HelperExhausted(p)

\* a connection that uses no helper, such as an allocation between BEGIN
\* IMMEDIATE (line 325) and commit (line 380), takes the write lock and
\* gives it back
Writer == CHOOSE p \in Sessions : p \notin ConcSessions

WriterBegins ==
    /\ lock = NoProc
    /\ lock' = Writer
    /\ UNCHANGED <<pg, sqlite, helper>>

WriterCommits ==
    /\ lock = Writer
    /\ lock' = NoProc
    /\ UNCHANGED <<pg, sqlite, helper>>

RetryNext ==
    \/ \E p \in ConcSessions :
          \/ \E many \in BOOLEAN : HelperCall(p, many)
          \/ HelperStep(p)
          \/ HelperCommit(p)
    \/ WriterBegins
    \/ WriterCommits

\* the SQLite application is not running
SqliteAtRest ==
    /\ images = <<>>
    /\ K_PER_PERSON = 1
    /\ R_TARGET = 1
    /\ COVER_M = 1
    /\ assigned_count = <<>>
    /\ assignments = {}
    /\ tx_assigned_count = assigned_count
    /\ tx_assignments = assignments
    /\ lock = NoProc
    /\ pc = [p \in Sessions |-> "idle"]
    /\ pid = [p \in Sessions |-> "p1"]
    /\ tries = [p \in Sessions |-> 0]
    /\ existing = [p \in Sessions |-> <<>>]
    /\ cover_ids = [p \in Sessions |-> <<>>]
    /\ chosen = [p \in Sessions |-> <<>>]
    /\ stage = [p \in Sessions |-> "intro"]
    /\ warned = [p \in Sessions |-> FALSE]
    /\ participant_id = [p \in Sessions |-> None]
    /\ idx = [p \in Sessions |-> 0]
    /\ participants = {}
    /\ ratings = <<>>
    /\ undone = [p \in Sessions |-> 0]

RetryInit == SqliteAtRest /\ RestAtRest

RetrySpec == RetryInit /\ [][RetryNext]_vars

\* ------------------------------------------- PostgreSQL variant (app_pg)
\* Every pg_fetchone, pg_fetchall and pg_exec runs its statement in a
\* transaction of its own, committed when the connection block is left; a
\* statement that fails on the pooled connection is rolled back and run
\* once on a direct connection.  One action is one statement, with the
\* Python code up to the next statement.
lite == <<sqlite, lock, helper>>

StudentIds == {"s1", "s2"}

\* the image lists a slot of assignment_plan may hold; image ids are 1, 2
PlanLists == {<<>>, <<1>>, <<1, 2>>, <<2, 1>>, <<1, 1>>}

\* after ensure_schema_once (slot_counter row (1, 1), lines 99-109) and the
\* import of exp_config and of a plan for every slot
PgInit ==
    /\ SqliteAtRest
    /\ HelperAtRest
    /\ p_total \in 0..MaxP
    /\ assignment_plan \in [1..(IF p_total = 0 THEN 1 ELSE p_total)
                              -> PlanLists]
    /\ next_slot = 1
    /\ row_lock = NoProc
    /\ pg_participants = <<>>
    /\ pg_assignments = {}
    /\ pg_ratings = <<>>
    /\ returned_slots = <<>>
    /\ SessionsAtRest

\* SET next_slot = (s.next_slot % p_total) + 1
NextSlot(slot, P) == (slot % P) + 1

\* SELECT image_id FROM assignment_plan WHERE slot=%s ORDER BY ord ASC
get_plan_image_ids_for_slot(slot) ==
    IF slot \in DOMAIN assignment_plan THEN assignment_plan[slot] ELSE <<>>

NRate(rows, q) == Len(SelectSeq(rows, LAMBDA r : r.participant_id = q))
NAssign(asg, q) == Cardinality(RowsOf(asg, q))

\* get_progress(pid): the two COUNT(*), ratings first.  The two counts are
\* read here in one state.
get_progress(q) == <<NRate(pg_ratings, q), NAssign(pg_assignments, q)>>

\* SELECT participant_id, slot ... ORDER BY start_time DESC LIMIT 1 over
\* the rows m of participants that pass the WHERE clause
LatestRow(m) ==
    IF m = <<>> THEN NoRow
    ELSE [participant_id |-> m[Len(m)].participant_id,
          slot |-> m[Len(m)].slot]

\* get_existing_participant_by_student, first query: the student's latest
\* participant that has assignments (inner join) and fewer ratings
FirstQuery(sid) ==
    LatestRow(SelectSeq(pg_participants, LAMBDA r :
        /\ r.student_id = sid
        /\ NAssign(pg_assignments, r.participant_id) > 0
        /\ NRate(pg_ratings, r.participant_id)
             < NAssign(pg_assignments, r.participant_id)))

\* second query: the student's latest participant
SecondQuery(sid) ==
    LatestRow(SelectSeq(pg_participants, LAMBDA r : r.student_id = sid))

\* mutant of OnConflictDoNothing: ord counted from 1
OnConflictDoNothing_FromOne(asg, q, image_ids) ==
    asg \cup {Row(q, image_ids[n], n) : n \in DOMAIN image_ids}

\* INSERT INTO assignments SELECT pid, x.image_id, x.ord FROM unnest(...)
\* ON CONFLICT DO NOTHING, with ords = range(len(image_ids)): a row whose
\* key (participant_id, image_id) is in the table, or was inserted earlier
\* by the same statement, is skipped
OnConflictDoNothing(asg, q, image_ids) ==
    asg \cup {Row(q, image_ids[n], n - 1) :
                n \in {m \in DOMAIN image_ids :
                         /\ \A r \in asg : ~(/\ r.participant_id = q
                                            /\ r.image_id = image_ids[m])
                         /\ \A l \in 1..m - 1 : image_ids[l] # image_ids[m]}}

\* render_intro, lines 412-414: the form is submitted with student id sid;
\* the first query of get_existing_participant_by_student.  Sessions are
\* interchangeable and so are student ids: the sessions submit in the
\* order of their numbers and "s1" is the first id used.
PgSubmit(p, sid) ==
    /\ session_state[p].stage = "intro"
    /\ intro[p].pc = "idle"
    /\ \A o \in Sessions : o < p => intro[o].pc # "idle"
    /\ sid # "s1" => \E o \in Sessions : intro[o].sid = "s1"
    /\ LET r == FirstQuery(sid)
       IN intro' = [intro EXCEPT ![p] =
                      [@ EXCEPT !.sid = sid, !.old = r,
                                !.first = (r # NoRow),
                                !.pc = IF r # NoRow THEN "progress"
                                       ELSE "query2"]]
    /\ UNCHANGED <<lite, p_total, assignment_plan, next_slot, row_lock,
                   pg_participants, pg_assignments, pg_ratings,
                   session_state, returned_slots>>

\* get_existing_participant_by_student, second query (lines 318-330)
PgQuery2(p) ==
    /\ intro[p].pc = "query2"
    /\ LET r == SecondQuery(intro[p].sid)
       IN intro' = [intro EXCEPT ![p] =
                      [@ EXCEPT !.old = r,
                                !.pc = IF r # NoRow THEN "progress"
                                       ELSE "uuid"]]
    /\ UNCHANGED <<lite, p_total, assignment_plan, next_slot, row_lock,
                   pg_participants, pg_assignments, pg_ratings,
                   session_state, returned_slots>>

\* render_intro, lines 415-423: get_progress(old_pid) decides between
\* restore_session and a new round
PgProgress(p) ==
    /\ intro[p].pc = "progress"
    /\ LET done == get_progress(intro[p].old.participant_id)[1]
           total == get_progress(intro[p].old.participant_id)[2]
       IN intro' = [intro EXCEPT ![p].pc =
                      IF total > 0 /\ done < total THEN "restore"
                      ELSE "uuid"]
    /\ UNCHANGED <<lite, p_total, assignment_plan, next_slot, row_lock,
                   pg_participants, pg_assignments, pg_ratings,
                   session_state, returned_slots>>

\* mutant of PgRestore: the session starts over at the first image
PgRestore_FromStart(p) ==
    /\ intro[p].pc = "restore"
    /\ session_state' = [session_state EXCEPT ![p] =
          [participant_id |-> intro[p].old.participant_id,
           slot |-> intro[p].old.slot, idx |-> 0, stage |-> "rating"]]
    /\ intro' = [intro EXCEPT ![p].pc = "resumed"]
    /\ UNCHANGED <<lite, p_total, assignment_plan, next_slot, row_lock,
                   pg_participants, pg_assignments, pg_ratings,
                   returned_slots>>

\* restore_session, lines 337-342: get_progress again, then the session
\* state; st.rerun() ends render_intro
PgRestore(p) ==
    /\ intro[p].pc = "restore"
    /\ LET done == get_progress(intro[p].old.participant_id)[1]
           total == get_progress(intro[p].old.participant_id)[2]
       IN session_state' = [session_state EXCEPT ![p] =
             [participant_id |-> intro[p].old.participant_id,
              slot |-> intro[p].old.slot,
              idx |-> done,
              stage |-> IF done < total THEN "rating" ELSE "done"]]
    /\ intro' = [intro EXCEPT ![p].pc = "resumed"]
    /\ UNCHANGED <<lite, p_total, assignment_plan, next_slot, row_lock,
                   pg_participants, pg_assignments, pg_ratings,
                   returned_slots>>

\* the participant ids that a uuid4() has produced
IssuedIds ==
    {intro[o].pid : o \in Sessions}
      \cup {pg_participants[n].participant_id : n \in DOMAIN pg_participants}

\* render_intro, line 425: pid = str(uuid4()), a value not produced before
\* ("p1" is the first one produced)
PgUuid(p) ==
    /\ intro[p].pc = "uuid"
    /\ \E q \in Participants \ IssuedIds :
         /\ q # "p1" => "p1" \in IssuedIds
         /\ intro' = [intro EXCEPT ![p] = [@ EXCEPT !.pid = q,
                                                    !.pc = "slot"]]
    /\ UNCHANGED <<lite, p_total, assignment_plan, next_slot, row_lock,
                   pg_participants, pg_assignments, pg_ratings,
                   session_state, returned_slots>>

\* allocate_next_slot, lines 225-226: if p_total <= 0: return 1
AllocateDefault(p) ==
    /\ intro[p].pc = "slot"
    /\ p_total <= 0
    /\ intro' = [intro EXCEPT ![p] = [@ EXCEPT !.slot = 1,
                                               !.pc = "participant"]]
    /\ returned_slots' = Append(returned_slots, 1)
    /\ UNCHANGED <<lite, p_total, assignment_plan, next_slot, row_lock,
                   pg_participants, pg_assignments, pg_ratings,
                   session_state>>

\* mutant of AllocateStatement: SELECT without FOR UPDATE reads the
\* committed row and does not wait
AllocateStatement_NoLock(p) ==
    /\ intro[p].pc = "slot"
    /\ p_total > 0
    /\ intro' = [intro EXCEPT ![p] = [@ EXCEPT !.slot = next_slot,
                                               !.pc = "slot_commit"]]
    /\ UNCHANGED <<lite, p_total, assignment_plan, next_slot, row_lock,
                   pg_participants, pg_assignments, pg_ratings,
                   session_state, returned_slots>>

\* allocate_next_slot, lines 227-244: SELECT next_slot ... FOR UPDATE waits
\* until no other transaction holds the row lock, locks the row and reads
\* its latest committed version; the UPDATE of the same statement writes
\* the successor, visible to others at the commit
AllocateStatement(p) ==
    /\ intro[p].pc = "slot"
    /\ p_total > 0
    /\ row_lock = NoProc
    /\ row_lock' = p
    /\ intro' = [intro EXCEPT ![p] = [@ EXCEPT !.slot = next_slot,
                                               !.pc = "slot_commit"]]
    /\ UNCHANGED <<lite, p_total, assignment_plan, next_slot,
                   pg_participants, pg_assignments, pg_ratings,
                   session_state, returned_slots>>

\* the commit of that transaction, and line 246: return int(row[0])
AllocateCommit(p) ==
    /\ intro[p].pc = "slot_commit"
    /\ next_slot' = NextSlot(intro[p].slot, p_total)
    /\ row_lock' = NoProc
    /\ returned_slots' = Append(returned_slots, intro[p].slot)
    /\ intro' = [intro EXCEPT ![p].pc = "participant"]
    /\ UNCHANGED <<lite, p_total, assignment_plan, pg_participants,
                   pg_assignments, pg_ratings, session_state>>

\* render_intro, lines 428-434: INSERT INTO participants
PgInsertParticipant(p) ==
    /\ intro[p].pc = "participant"
    /\ pg_participants' =
         Append(pg_participants,
                [participant_id |-> intro[p].pid,
                 student_id |-> intro[p].sid, slot |-> intro[p].slot])
    /\ intro' = [intro EXCEPT ![p].pc = "assign"]
    /\ UNCHANGED <<lite, p_total, assignment_plan, next_slot, row_lock,
                   pg_assignments, pg_ratings, session_state,
                   returned_slots>>

\* assign_images_for_participant(pid, slot), lines 267-277: return if the
\* participant has a row; st.stop() if the plan has none for the slot
AssignCheck(p) ==
    /\ intro[p].pc = "assign"
    /\ intro' = [intro EXCEPT ![p].pc =
         IF RowsOf(pg_assignments, intro[p].pid) # {} THEN "assigned"
         ELSE IF get_plan_image_ids_for_slot(intro[p].slot) = <<>>
              THEN "stopped"
              ELSE "insert"]
    /\ UNCHANGED <<lite, p_total, assignment_plan, next_slot, row_lock,
                   pg_participants, pg_assignments, pg_ratings,
                   session_state, returned_slots>>

\* lines 279-290: the INSERT
AssignInsert(p) ==
    /\ intro[p].pc = "insert"
    /\ pg_assignments' =
         OnConflictDoNothing(pg_assignments, intro[p].pid,
                             get_plan_image_ids_for_slot(intro[p].slot))
    /\ intro' = [intro EXCEPT ![p].pc = "assigned"]
    /\ UNCHANGED <<lite, p_total, assignment_plan, next_slot, row_lock,
                   pg_participants, pg_ratings, session_state,
                   returned_slots>>

\* render_intro, lines 438-441: the session state after the assignment
PgEnterTraining(p) ==
    /\ intro[p].pc = "assigned"
    /\ session_state' = [session_state EXCEPT ![p] =
         [@ EXCEPT !.participant_id = intro[p].pid,
                   !.slot = intro[p].slot, !.stage = "training"]]
    /\ intro' = [intro EXCEPT ![p].pc = "registered"]
    /\ UNCHANGED <<lite, p_total, assignment_plan, next_slot, row_lock,
                   pg_participants, pg_assignments, pg_ratings,
                   returned_slots>>

\* render_training: the button "Next -> Start Rating"
PgStartRating(p) ==
    /\ session_state[p].stage = "training"
    /\ session_state' = [session_state EXCEPT ![p] =
         [@ EXCEPT !.stage = "rating", !.idx = 0]]
    /\ UNCHANGED <<lite, p_total, assignment_plan, next_slot, row_lock,
                   pg_participants, pg_assignments, pg_ratings, intro,
                   returned_slots>>

\* render_rating on a click of Next: one ratings row for assigned_ids[idx],
\* then idx += 1.  The list is read once per session and kept in the
\* session state; a participant's rows are written by one statement and
\* never change, so the list is read here from the table.
PgRate(p) ==
    /\ session_state[p].stage = "rating"
    /\ \E assigned_ids \in get_assigned_image_ids(
                              pg_assignments,
                              session_state[p].participant_id) :
         /\ session_state[p].idx < Len(assigned_ids)
         /\ pg_ratings' =
              Append(pg_ratings,
                     RatingRow(session_state[p].participant_id,
                               assigned_ids[session_state[p].idx + 1]))
    /\ session_state' = [session_state EXCEPT ![p].idx = @ + 1]
    /\ UNCHANGED <<lite, p_total, assignment_plan, next_slot, row_lock,
                   pg_participants, pg_assignments, intro, returned_slots>>

\* render_rating: with total == 0 the run stops; once idx >= total the
\* stage becomes "done"
PgFinish(p) ==
    /\ session_state[p].stage = "rating"
    /\ \E assigned_ids \in get_assigned_image_ids(
                              pg_assignments,
                              session_state[p].participant_id) :
         /\ Len(assigned_ids) # 0
         /\ session_state[p].idx >= Len(assigned_ids)
    /\ session_state' = [session_state EXCEPT ![p].stage = "done"]
    /\ UNCHANGED <<lite, p_total, assignment_plan, next_slot, row_lock,
                   pg_participants, pg_assignments, pg_ratings, intro,
                   returned_slots>>

\* two browser sessions run the script of src/app_pg.py, every statement
\* of one interleaved with the statements of the other
PgNext ==
    \E p \in ConcSessions :
        \/ \E sid \in StudentIds : PgSubmit(p, sid)
        \/ PgQuery2(p)
        \/ PgProgress(p)
        \/ PgRestore(p)
        \/ PgUuid(p)
        \/ AllocateDefault(p)
        \/ AllocateStatement(p)
        \/ AllocateCommit(p)
        \/ PgInsertParticipant(p)
        \/ AssignCheck(p)
        \/ AssignInsert(p)
        \/ PgEnterTraining(p)
        \/ PgStartRating(p)
        \/ PgRate(p)
        \/ PgFinish(p)

PgSpec == PgInit /\ [][PgNext]_vars

\* allocate_next_slot alone: the sessions call it, MaxCalls times in all,
\* in any interleaving
AllocateCall(p) ==
    /\ intro[p].pc = "idle"
    /\ Len(returned_slots)
         + Cardinality({o \in Sessions :
                          intro[o].pc \in {"slot", "slot_commit"}})
         < MaxCalls
    /\ intro' = [intro EXCEPT ![p].pc = "slot"]
    /\ UNCHANGED <<lite, p_total, assignment_plan, next_slot, row_lock,
                   pg_participants, pg_assignments, pg_ratings,
                   session_state, returned_slots>>

\* the caller has the slot and may call again
AllocateReturn(p) ==
    /\ intro[p].pc = "participant"
    /\ intro' = [intro EXCEPT ![p].pc = "idle"]
    /\ UNCHANGED <<lite, p_total, assignment_plan, next_slot, row_lock,
                   pg_participants, pg_assignments, pg_ratings,
                   session_state, returned_slots>>

SlotNext ==
    \E p \in Sessions :
        \/ AllocateCall(p)
        \/ AllocateDefault(p)
        \/ AllocateStatement(p)
        \/ AllocateCommit(p)
        \/ AllocateReturn(p)

SlotSpec == PgInit /\ [][SlotNext]_vars

\* assign_images_for_participant(pid, slot) alone: every session calls it
\* once, for any participant and any slot of the plan.  Its one caller
\* passes a uuid of its own, so calls for one participant follow each
\* other, and calls for different participants interleave.
AssignCall(p, q, slot) ==
    /\ intro[p].pc = "idle"
    /\ \A o \in Sessions :
         intro[o].pc \in {"assign", "insert"} => intro[o].pid # q
    /\ intro' = [intro EXCEPT ![p] = [@ EXCEPT !.pid = q, !.slot = slot,
                                               !.pc = "assign"]]
    /\ UNCHANGED <<lite, p_total, assignment_plan, next_slot, row_lock,
                   pg_participants, pg_assignments, pg_ratings,
                   session_state, returned_slots>>

AssignNext ==
    \E p \in Sessions :
        \/ \E q \in Participants, slot \in DOMAIN assignment_plan :
              AssignCall(p, q, slot)
        \/ AssignCheck(p)
        \/ AssignInsert(p)

AssignSpec == PgInit /\ [][AssignNext]_vars

\* ---------------------------------------------------------- properties
ImagesOf(asg, q) == {r.image_id : r \in RowsOf(asg, q)}

Referencing(asg, i) == {r \in asg : r.image_id = i}

Called(p) == pc[p] # "idle"

ReturnedNormally(p) == pc[p] \in {"returned", "done"}

Strata ==
    {build_strata_key(c, r, d) :
       c \in Categories, r \in Resolutions, d \in Distortions}

\* C1: every image's assigned_count equals the number of assignments rows
\* that reference the image, in every state between two calls.
C1_CountEqualsLedgerRows ==
    \A i \in DOMAIN images :
        assigned_count[i] = Cardinality(Referencing(assignments, i))

\* C2: when the call before this one was for the same participant and
\* returned normally, this call changes no assigned_count and leaves the
\* participant's ordered assignment list as it was.
C2_SecondCallChangesNothing ==
    [][\A p \in Sessions \ {1} :
          (/\ pc[p] \notin Returned
           /\ ReturnedNormally(p - 1)
           /\ pid[p - 1] = pid[p])
          => /\ assigned_count' = assigned_count
             /\ get_assigned_image_ids(assignments', pid[p])
                  = get_assigned_image_ids(assignments, pid[p])]_vars

\* C3: once concurrent calls for distinct participants have all completed,
\* every assigned_count is at most R_TARGET and the counters have grown by
\* as much as assignments rows were written.
C3_ConcurrentCeilingAndSum ==
    (/\ \A p \in ConcSessions : Called(p) /\ pc[p] \in Returned
     /\ \A p, o \in ConcSessions : p # o => pid[p] # pid[o])
        => /\ \A i \in DOMAIN images : assigned_count[i] <= R_TARGET
           /\ Sum(assigned_count, DOMAIN images) = Cardinality(assignments)

\* C4: in a sequential run no assigned_count, committed or not, exceeds
\* R_TARGET; the two passes choose only images whose assigned_count is
\* below R_TARGET, none twice, and the update adds exactly one to each.
C4_SequentialCeiling ==
    /\ [](\A i \in DOMAIN images : /\ assigned_count[i] <= R_TARGET
                                   /\ tx_assigned_count[i] <= R_TARGET)
    /\ [][\A p \in Sessions :
            (pc[p] = "select" /\ pc'[p] = "insert")
            => /\ \A n \in DOMAIN chosen'[p] :
                    ViewCounts(p)[chosen'[p][n]] < R_TARGET
               /\ \A m, n \in DOMAIN chosen'[p] :
                    chosen'[p][m] = chosen'[p][n] => m = n]_vars
    /\ [][\A p \in Sessions :
            (pc[p] = "update" /\ pc'[p] = "commit")
            => \A i \in DOMAIN images :
                 tx_assigned_count'[i] = tx_assigned_count[i]
                     + (IF i \in Range(chosen[p]) THEN 1 ELSE 0)]_vars

\* an image has reached R_TARGET and a later allocation has selected
C4_Witness ==
    \E p \in Sessions :
        /\ pc[p] = "insert"
        /\ chosen[p] # <<>>
        /\ \E i \in DOMAIN images : assigned_count[i] = R_TARGET

\* C5: a call for a participant who already has K_PER_PERSON or more rows
\* returns at once: no table changes, committed or not, and the write lock
\* is not taken.
C5_FullyAssignedCallIsNoOp ==
    [][\A p \in Sessions :
          (/\ ~Called(p)
           /\ pc'[p] # "idle"
           /\ Cardinality(RowsOf(assignments, pid'[p])) >= K_PER_PERSON)
          => /\ pc'[p] = "returned"
             /\ UNCHANGED <<assigned_count, assignments, tx_assigned_count,
                            tx_assignments, lock>>]_vars

\* a call has returned at line 320
C5_Witness ==
    \E p \in Sessions :
        /\ pc[p] = "returned"
        /\ Cardinality(RowsOf(assignments, pid[p])) >= K_PER_PERSON

\* C6: the ord values of every participant's rows are exactly 0..n-1 for
\* n rows.
C6_OrdinalsContiguous ==
    \A q \in Participants :
        {r.ord : r \in RowsOf(assignments, q)}
            = 0..Cardinality(RowsOf(assignments, q)) - 1

\* C7: one allocation writes at most K_PER_PERSON rows, and fewer only when
\* fewer than K_PER_PERSON images were below R_TARGET, all of which the
\* participant then has.
C7_RealizedSize ==
    [][\A p \in Sessions :
          (pc[p] = "insert" /\ pc'[p] = "update")
          => LET written == tx_assignments' \ tx_assignments
                 avail   == {i \in DOMAIN images :
                               ViewCounts(p)[i] < R_TARGET}
             IN /\ Cardinality(written) <= K_PER_PERSON
                /\ Cardinality(written) < K_PER_PERSON
                     => /\ Cardinality(avail) < K_PER_PERSON
                        /\ avail \subseteq
                             ImagesOf(tx_assignments', pid[p])]_vars

\* C8: the coverage pass takes from every stratum at most COVER_M images
\* and at least min(COVER_M, available images of the stratum), and the
\* commit leaves every image it took among the participant's rows.
C8_CoveragePerStratum ==
    [][\A p \in Sessions :
          /\ (pc[p] = "select" /\ pc'[p] = "insert")
               => \A k \in Strata :
                    LET taken == Cardinality(
                                   {n \in DOMAIN cover_ids'[p] :
                                      KeyOf(cover_ids'[p][n]) = k})
                        stock == Cardinality(
                                   {i \in DOMAIN images :
                                      /\ ViewCounts(p)[i] < R_TARGET
                                      /\ KeyOf(i) = k})
                    IN taken <= COVER_M /\ taken >= Min(COVER_M, stock)
          /\ (pc[p] = "commit" /\ pc'[p] = "done")
               => Range(cover_ids[p])
                    \subseteq ImagesOf(assignments', pid[p])]_vars

\* a coverage pass that took from two strata, from each fewer than
\* COVER_M because the stratum held no more, is about to commit
C8_Witness ==
    \E p \in Sessions :
        /\ pc[p] = "commit"
        /\ Cardinality({KeyOf(i) : i \in Range(cover_ids[p])}) >= 2
        /\ \E k \in Strata :
             LET taken == {i \in Range(cover_ids[p]) : KeyOf(i) = k}
             IN taken # {} /\ Cardinality(taken) < COVER_M
        /\ Range(cover_ids[p]) \subseteq ImagesOf(tx_assignments, pid[p])

\* C9: no participant has two rows for the same image, committed or not.
C9_NoRepeatedImage ==
    \A asg \in {assignments, tx_assignments} :
        \A r1, r2 \in asg :
            (r1.participant_id = r2.participant_id
               /\ r1.image_id = r2.image_id) => r1 = r2

\* an INSERT OR IGNORE has met a row that another call for the same
\* participant wrote, with another ord
C9_Witness ==
    \E p \in Sessions :
        /\ pc[p] = "update"
        /\ \E n \in DOMAIN chosen[p] :
             \E r \in RowsOf(tx_assignments, pid[p]) :
                 r.image_id = chosen[p][n] /\ r.ord # n - 1

\* C10: a call that raises after its selection leaves the committed tables
\* as they were, and none of its writes stays pending for a later commit.
C10_FailureRollsBack ==
    [][\A p \in Sessions :
          (pc[p] \in {"insert", "update", "commit"} /\ pc'[p] = "failed")
          => /\ assigned_count' = assigned_count
             /\ assignments' = assignments
             /\ lock' # p
             /\ lock' = NoProc => /\ tx_assigned_count' = assigned_count'
                                  /\ tx_assignments' = assignments']_vars

\* a call has raised after its insert and at least one increment had been
\* executed, and the tables hold nothing of it
C10_Witness ==
    \E p \in Sessions :
        /\ pc[p] = "failed"
        /\ undone[p] >= 2
        /\ assignments = {}
        /\ \A i \in DOMAIN images : assigned_count[i] = 0

\* C11: when the last of the SQLITE_WRITE_RETRIES attempts at BEGIN
\* IMMEDIATE fails with a lock error, the call raises: it selects nothing
\* and writes nothing.
C11_ExhaustedRetriesFail ==
    [][\A p \in Sessions :
          (/\ pc[p] = "begin"
           /\ tries[p] = SQLITE_WRITE_RETRIES - 1
           /\ lock \notin {NoProc, p}
           /\ pc'[p] # "begin")
          => /\ pc'[p] = "failed"
             /\ chosen'[p] = <<>>
             /\ UNCHANGED <<db, txdb>>]_vars

\* C12: when two calls for the same participant overlap (the second read
\* its existing rows before the first committed), the participant ends with
\* at most K_PER_PERSON rows, and every assigned_count has grown by the
\* number of the participant's rows that reference the image.
C12_SameParticipantOnce ==
    [][\A p \in ConcSessions : \A o \in ConcSessions \ {p} :
          (/\ pc[p] = "commit" /\ pc'[p] = "done"
           /\ pc[o] = "done"
           /\ pid[o] = pid[p]
           /\ Len(existing[p]) < Cardinality(RowsOf(assignments, pid[p])))
          => /\ Cardinality(RowsOf(assignments', pid[p])) <= K_PER_PERSON
             /\ \A i \in DOMAIN images :
                  assigned_count'[i]
                    = Cardinality(Referencing(RowsOf(assignments', pid[p]),
                                              i))]_vars

\* C13: with an empty catalog the allocator fails: no call commits, and no
\* session leaves the intro stage.
C13_EmptyCatalogIsFatal ==
    images = <<>> =>
        \A p \in Sessions : pc[p] # "done" /\ stage[p] = "intro"

\* C14: a session in the training or rating stage has a participant with
\* at least one assignments row.
C14_NoStageWithoutAssignment ==
    \A p \in Sessions :
        stage[p] \in {"training", "rating"}
            => RowsOf(assignments, pid[p]) # {}

\* C15: a selection from fewer than K_PER_PERSON available images is short;
\* the warning is shown exactly when the chosen list is shorter than
\* K_PER_PERSON; a short list does not stop the call (its insert, update
\* and commit can run), and the commit publishes its rows and increments.
C15_ShortListCommitted ==
    /\ [][\A p \in Sessions :
            (pc[p] = "select" /\ pc'[p] = "insert")
            => /\ warned'[p] <=> Len(chosen'[p]) < K_PER_PERSON
               /\ Cardinality({i \in DOMAIN images :
                                 ViewCounts(p)[i] < R_TARGET}) < K_PER_PERSON
                    => Len(chosen'[p]) < K_PER_PERSON]_vars
    /\ [](\A p \in Sessions :
            Len(chosen[p]) < K_PER_PERSON
            => /\ pc[p] = "insert" => ENABLED Insert(p)
               /\ pc[p] = "update" => ENABLED Update(p)
               /\ pc[p] = "commit" => ENABLED Commit(p))
    /\ [][\A p \in Sessions :
            (pc[p] = "commit" /\ pc'[p] = "done"
               /\ Len(chosen[p]) < K_PER_PERSON)
            => /\ Range(chosen[p]) \subseteq ImagesOf(assignments', pid[p])
               /\ \A i \in DOMAIN images :
                    assigned_count'[i] = assigned_count[i]
                        + (IF i \in Range(chosen[p]) THEN 1 ELSE 0)]_vars

\* a call that warned has committed a list that is short and not empty
C15_Witness ==
    \E p \in Sessions :
        /\ pc[p] = "done"
        /\ warned[p]
        /\ RowsOf(assignments, pid[p]) # {}
        /\ Cardinality(RowsOf(assignments, pid[p])) < K_PER_PERSON
        /\ \A i \in ImagesOf(assignments, pid[p]) : assigned_count[i] >= 1

\* C16: every list get_assigned_image_ids can return for a participant
\* holds the image ids of the participant's committed rows, each once, and
\* its position i (from 0) is the image of the row with ord = i.
C16_ListIsLedgerInOrdOrder ==
    \A q \in Participants :
        \A ids \in get_assigned_image_ids(assignments, q) :
            /\ Range(ids) = ImagesOf(assignments, q)
            /\ Len(ids) = Cardinality(ImagesOf(assignments, q))
            /\ \A n \in DOMAIN ids : Row(q, ids[n], n - 1) \in assignments

C18_SelectionReproducible ==
    [][\A p \in Sessions :
          (pc[p] = "select" /\ pc'[p] = "insert")
          => Range(chosen'[p])
               = Range(Selection(SortedSeq(AvailableIds(ViewCounts(p))),
                                 ViewCounts(p)).chosen)]_vars

C20_LedgerRowsFinal ==
    [][\A q \in Participants :
          (\E o \in Sessions : pc[o] = "done" /\ pid[o] = q)
          => RowsOf(assignments', q) = RowsOf(assignments, q)]_vars

\* C22: in every stratum, no available image the coverage pass left out
\* has a strictly smaller assigned_count than an image it took.
C22_CoverageLeastExposed ==
    [][\A p \in Sessions :
          (pc[p] = "select" /\ pc'[p] = "insert")
          => \A t \in Range(cover_ids'[p]) :
               \A i \in DOMAIN images \ Range(cover_ids'[p]) :
                  (KeyOf(i) = KeyOf(t) /\ ViewCounts(p)[i] < R_TARGET)
                  => ViewCounts(p)[i] >= ViewCounts(p)[t]]_vars

\* a coverage pass has taken an image and left out a more exposed,
\* available image of the same stratum
C22_Witness ==
    \E p \in Sessions :
        /\ pc[p] = "insert"
        /\ \E t \in Range(cover_ids[p]) :
             \E i \in DOMAIN images \ Range(cover_ids[p]) :
                /\ KeyOf(i) = KeyOf(t)
                /\ ViewCounts(p)[i] < R_TARGET
                /\ ViewCounts(p)[i] > ViewCounts(p)[t]

C26_BalancedWithinStratum ==
    (/\ \A p \in Sessions : pc[p] \in Returned
     /\ \A p, o \in Sessions :
           (p # o /\ Called(p) /\ Called(o)) => pid[p] # pid[o])
    => \A i, j \in DOMAIN images :
         KeyOf(i) = KeyOf(j)
         => assigned_count[i] - assigned_count[j] \in {-1, 0, 1}

\* an allocation has committed, another participant's allocation after it
\* too, and a stratum holds more than one image
C26_Witness ==
    /\ \A p \in Sessions : pc[p] \in Returned
    /\ \E p, o \in Sessions : /\ pid[p] # pid[o]
                               /\ pc[p] = "done" /\ pc[o] = "done"
    /\ \E i, j \in DOMAIN images :
         /\ i # j /\ KeyOf(i) = KeyOf(j)
         /\ assigned_count[i] >= 1 /\ assigned_count[j] >= 1

\* the image ids of the ratings rows of participant q, in insertion order
RatedIds(rows, q) ==
    LET mine == SelectSeq(rows, LAMBDA r : r.participant_id = q)
    IN [n \in 1..Len(mine) |-> mine[n].image_id]

\* C21: a step that registers a participant, leaves the training stage or
\* records a rating (or moves a rating session on) changes no
\* assigned_count and no assignments row.
C21_OnlyAllocatorWrites ==
    [][(\/ participants' # participants
        \/ ratings' # ratings
        \/ idx' # idx
        \/ \E p \in Sessions : /\ stage[p] \in {"training", "rating"}
                                /\ stage'[p] # stage[p])
       => /\ assigned_count' = assigned_count
          /\ assignments' = assignments]_vars

\* a rating has been recorded for an image that has an assignments row and
\* a counted exposure
C21_Witness ==
    \E n \in DOMAIN ratings :
        /\ assigned_count[ratings[n].image_id] > 0
        /\ Referencing(assignments, ratings[n].image_id) # {}

StageRank(s) ==
    CASE s = "intro" -> 0 [] s = "training" -> 1
      [] s = "rating" -> 2 [] s = "done" -> 3

\* C27: no step moves a session's stage to an earlier one, a step moves it
\* only to the next one; idx is 0 when the session enters rating; and the
\* stage becomes done only when idx is at least the number of the
\* participant's assigned images, each of them rated in this session.
C27_StageOnlyForward ==
    [][\A p \in Sessions :
          /\ StageRank(stage'[p]) \in {StageRank(stage[p]),
                                       StageRank(stage[p]) + 1}
          /\ (stage[p] # "rating" /\ stage'[p] = "rating") => idx'[p] = 0
          /\ (stage[p] # "done" /\ stage'[p] = "done")
             => /\ idx'[p] >= Cardinality(RowsOf(assignments',
                                                 participant_id[p]))
                /\ ImagesOf(assignments', participant_id[p])
                     \subseteq Range(RatedIds(ratings', participant_id[p]))
      ]_vars

\* a session has gone through all four stages with two assigned images
C27_Witness ==
    \E p \in Sessions :
        /\ stage[p] = "done"
        /\ idx[p] = 2
        /\ Cardinality(RowsOf(assignments, participant_id[p])) = 2

AllLocked(log) == \A n \in DOMAIN log : log[n] = "locked"

\* C25: a helper makes at most SQLITE_WRITE_RETRIES attempts; while it
\* runs every attempt so far was a lock error, counted by the loop
\* variable, and it can take a step (another attempt, or the raise once
\* the rounds are used up); it returns right after its first success; it
\* raises either right after the first error that is not a lock error, or
\* after SQLITE_WRITE_RETRIES lock errors.
C25_RetriesCappedThenRaise ==
    \A p \in Sessions :
        LET h == helper[p]
            n == Len(h.log)
        IN /\ n <= SQLITE_WRITE_RETRIES
           /\ h.pc = "try" => /\ AllLocked(h.log) /\ h.i = n
                              /\ n < SQLITE_WRITE_RETRIES
                                 => \/ ENABLED HelperSuccess(p)
                                    \/ ENABLED HelperLocked(p)
                              /\ n = SQLITE_WRITE_RETRIES
                                 => /\ ENABLED HelperExhausted(p)
                                    /\ ~ENABLED HelperSuccess(p)
                                    /\ ~ENABLED HelperLocked(p)
                                    /\ ~ENABLED HelperOtherError(p)
           /\ h.pc \in {"returned", "committed"}
              => /\ n >= 1 /\ h.log[n] = "ok"
                 /\ AllLocked(SubSeq(h.log, 1, n - 1))
           /\ h.pc = "raised"
              => \/ /\ h.error = "other"
                    /\ n >= 1 /\ h.log[n] = "other"
                    /\ AllLocked(SubSeq(h.log, 1, n - 1))
                 \/ /\ h.error = "locked"
                    /\ n = SQLITE_WRITE_RETRIES
                    /\ AllLocked(h.log)

\* one helper has raised after SQLITE_WRITE_RETRIES lock errors, another
\* has returned after a lock error followed by a success
C25_Witness ==
    \E p, o \in Sessions :
        /\ helper[p].pc = "raised" /\ helper[p].error = "locked"
        /\ Len(helper[p].log) = SQLITE_WRITE_RETRIES
        /\ helper[o].pc = "committed"
        /\ Len(helper[o].log) >= 2

\* C28: with p_total = P >= 1, next_slot stays in 1..P, the k-th result
\* of allocate_next_slot in commit order is ((k-1) mod P) + 1, in 1..P,
\* and no two of P consecutive results are the same slot.
C28_SlotsRoundRobin ==
    p_total >= 1
    => /\ next_slot \in 1..p_total
       /\ \A k \in DOMAIN returned_slots :
            /\ returned_slots[k] = ((k - 1) % p_total) + 1
            /\ returned_slots[k] \in 1..p_total
       /\ \A j, k \in DOMAIN returned_slots :
            (j < k /\ k - j < p_total)
            => returned_slots[j] # returned_slots[k]

\* with two slots, the counter has wrapped around while one call holds the
\* row lock and another waits for it
C28_Witness ==
    /\ p_total = 2
    /\ Len(returned_slots) = 2
    /\ \E p, o \in Sessions : /\ row_lock = p
                              /\ intro[p].slot = 1
                              /\ intro[o].pc = "slot"

\* C30: the INSERT of a call for a participant without assignments rows,
\* for a slot whose plan repeats no image id, leaves the participant with
\* exactly the rows (image_ids[n], ord n-1) of the plan; while a call that
\* finds a row of its participant is at its check, no row of the
\* participant changes, and the call returns without reaching the INSERT.
C30_PlanWrittenInOrder ==
    [][\A p \in Sessions :
          LET q == intro[p].pid
              image_ids == get_plan_image_ids_for_slot(intro[p].slot)
          IN /\ (/\ intro[p].pc = "insert" /\ intro'[p].pc = "assigned"
                 /\ RowsOf(pg_assignments, q) = {}
                 /\ Cardinality(Range(image_ids)) = Len(image_ids))
                => /\ RowsOf(pg_assignments', q)
                        = {Row(q, image_ids[n], n - 1) :
                             n \in DOMAIN image_ids}
                   /\ get_assigned_image_ids(pg_assignments', q)
                        = {image_ids}
             /\ (/\ intro[p].pc = "assign"
                 /\ RowsOf(pg_assignments, q) # {})
                => /\ intro'[p].pc \in {"assign", "assigned"}
                   /\ RowsOf(pg_assignments', q) = RowsOf(pg_assignments, q)
      ]_vars

\* a first call has written a plan of two images for a participant, and a
\* second call for the same participant, with another plan, has returned
C30_Witness ==
    \E p, o \in Sessions :
        /\ p # o
        /\ intro[p].pid = intro[o].pid
        /\ intro[p].pc = "assigned" /\ intro[o].pc = "assigned"
        /\ get_plan_image_ids_for_slot(intro[p].slot)
             # get_plan_image_ids_for_slot(intro[o].slot)
        /\ NAssign(pg_assignments, intro[p].pid) = 2

\* the tables and the counter that a resumed submission must not write
PgWritten == <<pg_participants, next_slot, pg_assignments>>

\* C29 as stated: a submission whose student id has, when the form is
\* submitted, a participant with an assignment and fewer ratings than
\* assignments, takes no step that inserts a participants row, advances
\* slot_counter or writes an assignments row, does not go on to a new
\* participant, and ends with the session holding that participant's id
\* and slot, idx = the number of the participant's ratings rows and stage
\* rating.
C29_ResumeIfIncompleteAtSubmit ==
    [][\A p \in Sessions :
          (intro[p].first /\ intro'[p] # intro[p])
          => /\ UNCHANGED PgWritten
             /\ intro'[p].pc \in {"restore", "resumed"}
             /\ intro'[p].pc = "resumed"
                => session_state'[p] =
                     [participant_id |-> intro[p].old.participant_id,
                      slot |-> intro[p].old.slot,
                      idx |-> NRate(pg_ratings',
                                    intro[p].old.participant_id),
                      stage |-> "rating"]]_vars

\* C29, amended: a submission for which render_intro's get_progress finds
\* assignments and fewer ratings than assignments goes to restore_session
\* and not to a new participant; restore_session inserts no participants
\* row, does not advance slot_counter, writes no assignments row, and
\* gives the session that participant's id and slot, idx = the number of
\* the participant's ratings rows at that moment, and stage rating if that
\* number is below the number of assignments, done otherwise; up to there
\* the submission has written nothing.
C29_ResumeIfIncompleteAtProgress ==
    [][\A p \in Sessions :
          LET q == intro[p].old.participant_id
          IN /\ (/\ intro[p].pc = "progress" /\ intro'[p] # intro[p]
                 /\ NAssign(pg_assignments, q) > 0
                 /\ NRate(pg_ratings, q) < NAssign(pg_assignments, q))
                => intro'[p].pc = "restore" /\ UNCHANGED PgWritten
             /\ (intro[p].pc = "restore" /\ intro'[p] # intro[p])
                => /\ UNCHANGED PgWritten
                   /\ intro'[p].pc = "resumed"
                   /\ session_state'[p] =
                        [participant_id |-> q,
                         slot |-> intro[p].old.slot,
                         idx |-> NRate(pg_ratings', q),
                         stage |-> IF NRate(pg_ratings', q)
                                        < NAssign(pg_assignments', q)
                                   THEN "rating" ELSE "done"]
             /\ (intro[p].first /\ intro'[p] # intro[p]
                 /\ intro[p].pc \in {"progress", "restore"})
                => UNCHANGED PgWritten]_vars

\* a session has resumed, at idx 1 of 2 and in stage rating, the
\* participant that another session registered
C29_Witness ==
    \E p, o \in Sessions :
        /\ p # o
        /\ intro[p].pc = "resumed" /\ intro[p].first
        /\ intro[o].pc = "registered"
        /\ session_state[p].participant_id = intro[o].pid
        /\ session_state[p].slot = intro[o].slot
        /\ session_state[p].stage = "rating"
        /\ session_state[p].idx = 1
        /\ NAssign(pg_assignments, intro[o].pid) = 2
====
